---- MODULE Spec2Model ----
(***************************************************************************)
(* A model of app.py, the Operando Sample Environment Library dashboard.   *)
(* One run of the script is a sequence of sections (load, sidebar, filter, *)
(* metrics, table, comparison, matrix, download); each user interaction    *)
(* with a widget starts a new run over the same memoized registry.         *)
(*                                                                         *)
(* A pandas cell is <<v>> when it holds the value v and <<>> when it is    *)
(* NaN.  JSON arrays of technique / instrument names are modelled as sets  *)
(* (the script only tests membership in them).  A technique name is a      *)
(* tuple of one-character strings, so that the glossary's lower-casing and *)
(* containment test can be computed.                                       *)
(***************************************************************************)
EXTENDS Integers, Sequences, FiniteSets, TLC

VARIABLES
    file,                 \* operando_cell_registry.json on disk
    cache,                \* st.cache_data memo of load_registry: <<>> or <<result>>
    pc,                   \* the section the current run is about to execute
    error,                \* the uncaught exception that ended the run, if any
    rendered,             \* the sections this run has put on the page
    df,                   \* the flattened frame
    raw_json,             \* the parsed list of records
    all_techniques,
    all_instruments,
    criteria,             \* the five sidebar widgets' values (session state)
    filtered_df,
    metrics,
    table,
    widget,               \* the comparison multiselect's session state
    previous_selection,   \* the selection the previous run ended with
    selected_cell_names,
    cards,
    technique_matrix,
    download,             \* the data handed to st.download_button
    tech,                 \* a candidate technique string (glossary annotation)
    desc                  \* the caption the glossary loop produced for it

vars == << file, cache, pc, error, rendered, df, raw_json, all_techniques,
           all_instruments, criteria, filtered_df, metrics, table, widget,
           previous_selection, selected_cell_names, cards, technique_matrix,
           download, tech, desc >>

-----------------------------------------------------------------------------
(* Bounds of the model and constants of the program *)

\* the longest registry the model loads
MaxRecords == 2

\* the longest free-form candidate string given to the glossary loop
MaxCandidateLen == 3

\* fillna(25) / limits.get('max_temp_c', 25)
DefaultTemp == 25

\* the "High Temperature (>100 C)" threshold of the filter and of the metric
HighTempThreshold == 100

\* max_selections of the comparison multiselect
MaxSelections == 3

NaN == <<>>

None == <<>>

-----------------------------------------------------------------------------
(* Strings as character tuples *)

XRD == <<"X", "R", "D">>

SANS == <<"S", "A", "N", "S">>

-----------------------------------------------------------------------------
(* The registry documents the model loads *)

\* The leaves of a HardwareRecord, as key paths into the nested object.
LeafPaths ==
    { <<"id">>, <<"name">>, <<"type">>,
      <<"compatibility", "techniques">>,
      <<"compatibility", "instruments">>,
      <<"digital_twin", "cad_available">>,
      <<"specifications", "operating_limits", "max_temp_c">>,
      <<"specifications", "operating_limits", "pressure_control">>,
      <<"contact_info", "primary_email">> }

\* The JSON type of each leaf.
LeafKind(p) ==
    CASE p \in { <<"id">>, <<"specifications", "operating_limits", "max_temp_c">> }
            -> "number"
      [] p \in { <<"digital_twin", "cad_available">>,
                 <<"specifications", "operating_limits", "pressure_control">> }
            -> "boolean"
      [] p \in { <<"compatibility", "techniques">>,
                 <<"compatibility", "instruments">> }
            -> "array"
      [] OTHER -> "string"

\* operating_limits with the given optional keys present.
Limits(keys, temp, pressure) ==
    [k \in keys |-> IF k = "max_temp_c" THEN temp ELSE pressure]

\* A record as json.load returns it, still without its id.
Entry(name, techniques, instruments, cad, limits) ==
    [ name           |-> name,
      type           |-> "Coin cell",
      compatibility  |-> [techniques |-> techniques, instruments |-> instruments],
      digital_twin   |-> [cad_available |-> cad],
      specifications |-> [operating_limits |-> limits],
      contact_info   |-> [primary_email |-> "support@example.org"] ]

\* The records registries are assembled from.  Two of them share the name
\* "CellA" and two the name "CellB"; every combination of the optional keys of
\* operating_limits occurs, max_temp_c on both sides of the threshold and on it.
Samples ==
    << Entry("CellA", {XRD, SANS}, {"POLARIS"}, TRUE,
             Limits({"max_temp_c"}, 150, FALSE)),
       Entry("CellB", {SANS}, {"POLARIS"}, FALSE,
             Limits({}, 0, FALSE)),
       Entry("CellB", {XRD}, {"I12"}, FALSE,
             Limits({"max_temp_c", "pressure_control"}, 80, TRUE)),
       Entry("CellA", {SANS}, {"I12"}, FALSE,
             Limits({"max_temp_c", "pressure_control"}, 100, FALSE)),
       Entry("CellB", {XRD}, {}, TRUE,
             Limits({"pressure_control"}, 0, TRUE)) >>

\* The i-th record of a registry gets a unique id.
WithId(entry, i) ==
    [k \in DOMAIN entry \cup {"id"} |-> IF k = "id" THEN 100 + i ELSE entry[k]]

Registry(picks) ==
    [i \in 1..Len(picks) |-> WithId(Samples[picks[i]], i)]

Registries ==
    { Registry(picks) :
        picks \in UNION { [1..n -> 1..Len(Samples)] : n \in 1..MaxRecords } }

\* Documents that parse as JSON lists but whose objects are not record-shaped:
\* a record without its id, and a record without its compatibility object.
Without(entry, key) ==
    [k \in DOMAIN entry \ {key} |-> entry[k]]

Misshapen ==
    { << Without(WithId(Samples[1], 1), "id") >>,
      << Without(WithId(Samples[1], 1), "compatibility") >> }

-----------------------------------------------------------------------------
(* json.dumps / json.load *)

\* A JSON value is a pair <<type, content>>; true and false are literals.
RECURSIVE JsonDumpsObject(_, _)
JsonDumpsObject(obj, prefix) ==
    << "object",
       [k \in DOMAIN obj |->
          LET p == Append(prefix, k) IN
          IF p \in LeafPaths
          THEN CASE LeafKind(p) = "boolean"
                      -> << "literal", IF obj[k] THEN "true" ELSE "false" >>
                 [] OTHER -> << LeafKind(p), obj[k] >>
          ELSE JsonDumpsObject(obj[k], p)] >>

JsonDumps(data) ==
    << "array", [i \in 1..Len(data) |-> JsonDumpsObject(data[i], <<>>)] >>

RECURSIVE JsonLoadsValue(_)
JsonLoadsValue(j) ==
    CASE j[1] = "object"  -> [k \in DOMAIN j[2] |-> JsonLoadsValue(j[2][k])]
      [] j[1] = "literal" -> (j[2] = "true")
      [] OTHER            -> j[2]

JsonLoads(text) ==
    [i \in 1..Len(text[2]) |-> JsonLoadsValue(text[2][i])]

Files ==
    { [kind |-> "absent"], [kind |-> "invalid"], [kind |-> "scalar"] }
    \cup { [kind |-> "list", text |-> JsonDumps(r)] : r \in Registries \cup Misshapen }

-----------------------------------------------------------------------------
(* pandas *)

RECURSIVE HasPath(_, _)
HasPath(obj, p) ==
    IF p = <<>> THEN TRUE
    ELSE Head(p) \in DOMAIN obj /\ HasPath(obj[Head(p)], Tail(p))

RECURSIVE GetPath(_, _)
GetPath(obj, p) ==
    IF p = <<>> THEN obj ELSE GetPath(obj[Head(p)], Tail(p))

\* The column a leaf is flattened to: its keys joined by ".".
RECURSIVE ColumnName(_)
ColumnName(p) ==
    IF Len(p) = 1 THEN p[1] ELSE p[1] \o "." \o ColumnName(Tail(p))

\* pd.json_normalize: one row per record, one column per leaf that at least
\* one record carries, NaN where a record does not carry the leaf.
json_normalize(data) ==
    LET present == { p \in LeafPaths : \E i \in 1..Len(data) : HasPath(data[i], p) }
        cols    == { ColumnName(p) : p \in present }
        leaf(c) == CHOOSE p \in present : ColumnName(p) = c
    IN  [ columns |-> cols,
          rows    |-> [i \in 1..Len(data) |->
                         [c \in cols |->
                            IF HasPath(data[i], leaf(c))
                            THEN << GetPath(data[i], leaf(c)) >>
                            ELSE NaN]] ]

EmptyFrame == [columns |-> {}, rows |-> <<>>]

\* series == True on a cell.
IsTrue(cell) == cell # NaN /\ cell[1] = TRUE

\* series.fillna(v) on a cell.
fillna(cell, v) == IF cell = NaN THEN v ELSE cell[1]

\* Values of a sequence in first-occurrence order (Series.unique()).
RECURSIVE Unique(_)
Unique(s) ==
    IF s = <<>> THEN <<>>
    ELSE LET u == Unique(SubSeq(s, 1, Len(s) - 1))
         IN  IF \E i \in 1..Len(u) : u[i] = s[Len(s)] THEN u
             ELSE Append(u, s[Len(s)])

ColId == "id"
ColName == "name"
ColType == "type"
ColTechniques == "compatibility.techniques"
ColInstruments == "compatibility.instruments"
ColCad == "digital_twin.cad_available"
ColMaxTemp == "specifications.operating_limits.max_temp_c"
ColPressure == "specifications.operating_limits.pressure_control"
ColEmail == "contact_info.primary_email"

-----------------------------------------------------------------------------
(* The technique glossary *)

\* TECHNIQUE_DEFINITIONS in insertion order, the order dict.items() yields.
\* Keys are character tuples; in the definitions the Greek mu and the en dash
\* are written "mu" and "-".
TECHNIQUE_DEFINITIONS ==
    << [ key |-> << "N", "e", "u", "t", "r", "o", "n", " ", "D", "i", "f", "f", "r", "a", "c", "t", "i", "o", "n" >>,
         val |-> "Sensitive to light elements (Li, O) and isotopes. Used to determine long-range crystal structure and phase evolution." ],
       [ key |-> << "M", "u", "o", "n", " ", "s", "p", "e", "c", "t", "r", "o", "s", "c", "o", "p", "y" >>,
         val |-> "A sensitive local probe (mu+SR) used to quantify ion diffusion rates (Li+, Na+) and pathways at the atomic scale." ],
       [ key |-> << "M", "u", "o", "n", " ", "E", "l", "e", "m", "e", "n", "t", "a", "l", " ", "A", "n", "a", "l", "y", "s", "i", "s" >>,
         val |-> "Uses negative muons (mu-SR/muXES) to probe elemental composition far below the surface without destruction." ],
       [ key |-> << "S", "A", "N", "S" >>,
         val |-> "Small Angle Neutron Scattering. Probes nanoscale structures (1-100 nm), such as porosity, SEI formation, and particle morphology." ],
       [ key |-> << "X", "P", "D", "F" >>,
         val |-> "X-ray Pair Distribution Function. Probes local structure in disordered/amorphous materials (e.g., electrolytes)." ],
       [ key |-> << "X", "A", "S" >>,
         val |-> "X-ray Absorption Spectroscopy. Probes oxidation states, bond lengths, and local coordination geometry." ],
       [ key |-> << "X", "R", "S" >>,
         val |-> "X-ray Raman Scattering. Provides electronic structure information using hard X-rays; suitable for bulk measurements." ],
       [ key |-> << "S", "o", "f", "t", " ", "X", "P", "S" >>,
         val |-> "X-ray Photoelectron Spectroscopy. Surface-sensitive (<10 nm) analysis of elemental composition and SEI chemistry." ],
       [ key |-> << "A", "P", "-", "X", "P", "S" >>,
         val |-> "Ambient Pressure XPS. Allows surface analysis at realistic pressures (solid-gas/solid-liquid interfaces), bridging the pressure gap." ],
       [ key |-> << "N", "E", "X", "A", "F", "S" >>,
         val |-> "Near-Edge X-ray Absorption Fine Structure. Probes electronic structure of light elements at surfaces." ],
       [ key |-> << "N", "a", "n", "o", "-", "f", "o", "c", "u", "s", " ", "X", "R", "F" >>,
         val |-> "X-ray Fluorescence microscopy. Maps elemental distribution with nanoscale resolution." ],
       [ key |-> << "X", "A", "N", "E", "S" >>,
         val |-> "X-ray Absorption Near Edge Structure. Determines oxidation state and local symmetry." ],
       [ key |-> << "I", "m", "a", "g", "i", "n", "g" >>,
         val |-> "Visualises macroscopic features like dendrites, gas evolution, and particle cracking (2D/3D)." ],
       [ key |-> << "X", "R", "D" >>,
         val |-> "X-ray Diffraction. Determines crystal structure, lattice parameters, strain, and phase evolution during cycling." ],
       [ key |-> << "X", "R", "D", "-", "C", "T" >>,
         val |-> "X-ray Diffraction Computed Tomography. Combines diffraction contrast with tomography to map phase distributions and strain fields in 3D." ],
       [ key |-> << "D", "F", "X", "M" >>,
         val |-> "Dark Field X-ray Microscopy. Allows high-resolution mapping of crystal orientation and strain within individual grains." ],
       [ key |-> << "E", "X", "A", "F", "S" >>,
         val |-> "Extended X-ray Absorption Fine Structure. Analyzes average local structure and coordination numbers in materials lacking long-range order." ],
       [ key |-> << "R", "I", "X", "S" >>,
         val |-> "Resonant Inelastic X-ray Scattering. Probes orbital states and charge transfer dynamics." ],
       [ key |-> << "N", "e", "u", "t", "r", "o", "n", " ", "T", "o", "t", "a", "l", " ", "S", "c", "a", "t", "t", "e", "r", "i", "n", "g" >>,
         val |-> "Characterises non-crystalline/disordered materials (e.g., liquids) using H/D isotopic substitution." ],
       [ key |-> << "Q", "E", "N", "S" >>,
         val |-> "Quasi-Elastic Neutron Scattering. Probes slow diffusional processes like Li-ion hopping." ],
       [ key |-> << "I", "N", "S" >>,
         val |-> "Inelastic Neutron Scattering. Probes vibrational modes to investigate material dynamics." ],
       [ key |-> << "B", "r", "a", "g", "g", " ", "E", "d", "g", "e", " ", "I", "m", "a", "g", "i", "n", "g" >>,
         val |-> "Maps crystal texture, phase distribution, and lattice strain in real space." ],
       [ key |-> << "P", "t", "y", "c", "h", "o", "g", "r", "a", "p", "h", "y" >>,
         val |-> "High-resolution phase-contrast imaging for nanoscale morphology." ],
       [ key |-> << "N", "e", "u", "t", "r", "o", "n", " ", "R", "e", "f", "l", "e", "c", "t", "o", "m", "e", "t", "r", "y" >>,
         val |-> "Measures thin films and buried interfaces." ] >>

\* str.lower() on one character.
LowerChar(c) ==
    CASE c = "A" -> "a"
      [] c = "B" -> "b"
      [] c = "C" -> "c"
      [] c = "D" -> "d"
      [] c = "E" -> "e"
      [] c = "F" -> "f"
      [] c = "G" -> "g"
      [] c = "H" -> "h"
      [] c = "I" -> "i"
      [] c = "J" -> "j"
      [] c = "K" -> "k"
      [] c = "L" -> "l"
      [] c = "M" -> "m"
      [] c = "N" -> "n"
      [] c = "O" -> "o"
      [] c = "P" -> "p"
      [] c = "Q" -> "q"
      [] c = "R" -> "r"
      [] c = "S" -> "s"
      [] c = "T" -> "t"
      [] c = "U" -> "u"
      [] c = "V" -> "v"
      [] c = "W" -> "w"
      [] c = "X" -> "x"
      [] c = "Y" -> "y"
      [] c = "Z" -> "z"
      [] OTHER -> c


lower(s) == [i \in 1..Len(s) |-> LowerChar(s[i])]

\* needle in haystack, on strings.
Contains(needle, haystack) ==
    \E i \in 0..(Len(haystack) - Len(needle)) :
        SubSeq(haystack, i + 1, i + Len(needle)) = needle

\* The loop over TECHNIQUE_DEFINITIONS.items() from its i-th item on: the
\* first key contained in the candidate sets desc and breaks.
RECURSIVE ScanGlossary(_, _)
ScanGlossary(i, candidate) ==
    IF i > Len(TECHNIQUE_DEFINITIONS) THEN "Definition unavailable."
    ELSE IF Contains(lower(TECHNIQUE_DEFINITIONS[i].key), lower(candidate))
         THEN TECHNIQUE_DEFINITIONS[i].val
         ELSE ScanGlossary(i + 1, candidate)

\* The same loop without its break: the last key contained wins.
RECURSIVE ScanGlossaryNoBreak(_, _, _)
ScanGlossaryNoBreak(i, candidate, found) ==
    IF i > Len(TECHNIQUE_DEFINITIONS) THEN found
    ELSE ScanGlossaryNoBreak(
             i + 1, candidate,
             IF Contains(lower(TECHNIQUE_DEFINITIONS[i].key), lower(candidate))
             THEN TECHNIQUE_DEFINITIONS[i].val ELSE found)

PartialMatchNoBreak(candidate) ==
    ScanGlossaryNoBreak(1, candidate, "Definition unavailable.")

\* desc for one technique of a comparison card.
PartialMatch(candidate) == ScanGlossary(1, candidate)

-----------------------------------------------------------------------------
(* Sidebar *)

\* sorted(list(set(item for sublist in df[column] for item in sublist)))
AllValues(frame, column) ==
    UNION { frame.rows[i][column][1] : i \in 1..Len(frame.rows) }

\* The exception a "for sublist in df[column]" comprehension ends with, if any.
ColumnIterationError(frame, column, line) ==
    IF column \notin frame.columns
    THEN << [exc |-> "KeyError", line |-> line] >>
    ELSE IF \E i \in 1..Len(frame.rows) : frame.rows[i][column] = NaN
         THEN << [exc |-> "TypeError", line |-> line] >>
         ELSE None

NoCriteria ==
    [ techniques        |-> {},
      instruments       |-> {},
      digital_twin_only |-> FALSE,
      high_temp_only    |-> FALSE,
      pressure_control  |-> FALSE ]

\* Every value the five sidebar widgets can hold for the loaded registry.
CriteriaChoices ==
    [ techniques        : SUBSET all_techniques,
      instruments       : SUBSET all_instruments,
      digital_twin_only : BOOLEAN,
      high_temp_only    : BOOLEAN,
      pressure_control  : BOOLEAN ]

-----------------------------------------------------------------------------
(* Filter logic *)

\* all(...) in place of any(...).
AllIn(xs, selected) == \A i \in xs : i \in selected

\* any(i in selected for i in x)
AnyIn(xs, selected) == \E i \in xs : i \in selected

\* if selected_techniques: keep rows with any technique in the selection
TechniqueStep(frame, c) ==
    IF c.techniques # {}
    THEN [frame EXCEPT !.rows =
             SelectSeq(frame.rows, LAMBDA r : AnyIn(r[ColTechniques][1], c.techniques))]
    ELSE frame

\* if selected_instruments: keep rows with any instrument in the selection
InstrumentStep(frame, c) ==
    IF c.instruments # {}
    THEN [frame EXCEPT !.rows =
             SelectSeq(frame.rows, LAMBDA r : AnyIn(r[ColInstruments][1], c.instruments))]
    ELSE frame

\* if digital_twin_only: keep rows whose cad_available == True
DigitalTwinStep(frame, c) ==
    IF c.digital_twin_only
    THEN [frame EXCEPT !.rows = SelectSeq(frame.rows, LAMBDA r : IsTrue(r[ColCad]))]
    ELSE frame

\* if pressure_control: keep rows whose pressure_control == True
PressureStep(frame, c) ==
    IF c.pressure_control
    THEN [frame EXCEPT !.rows = SelectSeq(frame.rows, LAMBDA r : IsTrue(r[ColPressure]))]
    ELSE frame

\* The comparison with > in place of >=.
IsHighTempStrict(r) == fillna(r[ColMaxTemp], DefaultTemp) > HighTempThreshold

\* max_temp_c.fillna(25) >= 100 on one row
IsHighTemp(r) == fillna(r[ColMaxTemp], DefaultTemp) >= HighTempThreshold

\* if high_temp_only: keep rows whose max_temp_c.fillna(25) >= 100
HighTempStep(frame, c) ==
    IF c.high_temp_only
    THEN [frame EXCEPT !.rows = SelectSeq(frame.rows, IsHighTemp)]
    ELSE frame

\* The five steps in the script's order.  A step that indexes a column the
\* frame does not have raises KeyError, and filtered_df keeps the value the
\* step before it gave it.
FilterLogic(frame, c) ==
    LET f2 == InstrumentStep(TechniqueStep(frame, c), c)
        f3 == DigitalTwinStep(f2, c)
        f4 == PressureStep(f3, c)
        f5 == HighTempStep(f4, c)
    IN  IF c.digital_twin_only /\ ColCad \notin frame.columns
        THEN [frame |-> f2, error |-> << [exc |-> "KeyError", line |-> 89] >>]
        ELSE IF c.pressure_control /\ ColPressure \notin frame.columns
        THEN [frame |-> f3, error |-> << [exc |-> "KeyError", line |-> 92] >>]
        ELSE IF c.high_temp_only /\ ColMaxTemp \notin frame.columns
        THEN [frame |-> f4, error |-> << [exc |-> "KeyError", line |-> 95] >>]
        ELSE [frame |-> f5, error |-> None]

-----------------------------------------------------------------------------
(* Dashboard sections *)

\* m1, m2, m3 of the dashboard header.
SummaryMetrics(frame) ==
    [ found     |-> Len(frame.rows),
      twin      |-> Len(SelectSeq(frame.rows, LAMBDA r : IsTrue(r[ColCad]))),
      high_temp |-> Len(SelectSeq(frame.rows, IsHighTemp)) ]

SummaryError(frame) ==
    IF ColCad \notin frame.columns
    THEN << [exc |-> "KeyError", line |-> 108] >>
    ELSE IF ColMaxTemp \notin frame.columns
         THEN << [exc |-> "KeyError", line |-> 109] >>
         ELSE None

TableColumns ==
    { ColName, ColType, ColCad, ColTechniques, ColMaxTemp, ColEmail }

\* filtered_df[[...six columns...]]
MainTable(frame) ==
    [ columns |-> TableColumns,
      rows    |-> [i \in 1..Len(frame.rows) |->
                     [c \in TableColumns |-> frame.rows[i][c]]] ]

\* filtered_df['name'] as a list
Names(frame) ==
    [i \in 1..Len(frame.rows) |-> frame.rows[i][ColName][1]]

Range(s) == { s[i] : i \in 1..Len(s) }

\* filtered_df['name'].unique()
ComparisonOptions(frame) == Unique(Names(frame))

\* [filtered_df['name'].iloc[0]] if not filtered_df.empty else None
ComparisonDefault(frame) ==
    IF Len(frame.rows) = 0 THEN <<>> ELSE << Names(frame)[1] >>

\* What st.multiselect returns: the value session state holds for this very
\* widget (same options, same default), the default for a widget not seen
\* before.
Multiselect(state, options, default) ==
    IF state # None /\ state[1].options = options /\ state[1].default = default
    THEN state[1].value
    ELSE default

\* The lookup comparing the wrong key with the selected name.
CellDataByType(data, cell_name) ==
    LET hits == { i \in 1..Len(data) : data[i].type = cell_name }
    IN  IF hits = {} THEN None
        ELSE << data[CHOOSE i \in hits : \A j \in hits : i <= j] >>

\* next(item for item in raw_json if item["name"] == cell_name): the first
\* record of that name, None standing for the StopIteration of an exhausted
\* generator.
CellData(data, cell_name) ==
    LET hits == { i \in 1..Len(data) : data[i].name = cell_name }
    IN  IF hits = {} THEN None
        ELSE << data[CHOOSE i \in hits : \A j \in hits : i <= j] >>

DictGet(d, key, default) == IF key \in DOMAIN d THEN d[key] ELSE default

\* One comparison column.
Card(cell_data) ==
    LET limits == cell_data.specifications.operating_limits
    IN  [ name       |-> cell_data.name,
          type       |-> cell_data.type,
          email      |-> cell_data.contact_info.primary_email,
          max_temp   |-> DictGet(limits, "max_temp_c", DefaultTemp),
          pressure   |-> IF DictGet(limits, "pressure_control", FALSE)
                         THEN "Yes" ELSE "No",
          cad        |-> IF cell_data.digital_twin.cad_available
                         THEN "Yes" ELSE "No",
          techniques |-> [t \in cell_data.compatibility.techniques |->
                            PartialMatch(t)] ]

\* The records the matrix loop gives a row: entry['name'] in
\* filtered_df['name'].values.
MatrixMembers(data, frame) ==
    SelectSeq(data, LAMBDA entry : entry.name \in Range(Names(frame)))

\* Columns taken from the rows on display only.
MatrixColumnsOfFiltered(frame, techniques) ==
    AllValues(frame, ColTechniques)

\* The technique columns of a matrix row: for tech in all_techniques.
MatrixColumns(frame, techniques) == techniques

\* technique_matrix: one row per member, one cell per technique column.
TechniqueMatrix(data, frame, techniques) ==
    LET members == MatrixMembers(data, frame)
    IN  [i \in 1..Len(members) |->
           [ Cell  |-> members[i].name,
             cells |-> [t \in MatrixColumns(frame, techniques) |->
                          t \in members[i].compatibility.techniques] ]]

\* filtered_df['id'].tolist()
VisibleIds(frame) ==
    { frame.rows[i][ColId] : i \in 1..Len(frame.rows) }

\* The download matched on names instead of ids.
FilteredJsonDownloadByName(data, frame) ==
    SelectSeq(data, LAMBDA entry : entry.name \in Range(Names(frame)))

\* [entry for entry in raw_json if entry['id'] in visible_ids]
FilteredJsonDownload(data, frame) ==
    SelectSeq(data, LAMBDA entry : << entry.id >> \in VisibleIds(frame))

DownloadError(data, frame) ==
    IF ColId \notin frame.columns
    THEN << [exc |-> "KeyError", line |-> 222] >>
    ELSE IF \E i \in 1..Len(data) : "id" \notin DOMAIN data[i]
         THEN << [exc |-> "KeyError", line |-> 223] >>
         ELSE None

-----------------------------------------------------------------------------
(* The script, section by section *)

Init ==
    /\ file \in Files
    /\ cache = None
    /\ pc = "load"
    /\ error = None
    /\ rendered = {}
    /\ df = EmptyFrame
    /\ raw_json = <<>>
    /\ all_techniques = {}
    /\ all_instruments = {}
    /\ criteria = NoCriteria
    /\ filtered_df = EmptyFrame
    /\ metrics = None
    /\ table = None
    /\ widget = None
    /\ previous_selection = <<>>
    /\ selected_cell_names = <<>>
    /\ cards = <<>>
    /\ technique_matrix = <<>>
    /\ download = None
    /\ tech = <<>>
    /\ desc = ""

\* An uncaught exception ends the run; what was rendered stays on the page.
Raise(e, shown) ==
    /\ pc' = "crashed"
    /\ error' = e
    /\ rendered' = rendered \cup shown

\* load_registry() and the assignment df, raw_json = load_registry().
load_registry ==
    /\ pc = "load"
    /\ IF cache # None
       THEN /\ df' = cache[1].df
            /\ raw_json' = cache[1].data
            /\ pc' = "sidebar"
            /\ UNCHANGED << cache, error, rendered >>
       ELSE CASE file.kind = "absent" ->
                   \* except FileNotFoundError: st.error(...); st.stop()
                   /\ pc' = "stopped"
                   /\ rendered' = rendered \cup {"error"}
                   /\ UNCHANGED << cache, error, df, raw_json >>
              [] file.kind = "invalid" ->
                   /\ Raise(<< [exc |-> "JSONDecodeError", line |-> 46] >>, {})
                   /\ UNCHANGED << cache, df, raw_json >>
              [] file.kind = "scalar" ->
                   /\ Raise(<< [exc |-> "NotImplementedError", line |-> 47] >>, {})
                   /\ UNCHANGED << cache, df, raw_json >>
              [] OTHER ->
                   LET data  == JsonLoads(file.text)
                       frame == json_normalize(data)
                   IN  /\ df' = frame
                       /\ raw_json' = data
                       /\ cache' = << [df |-> frame, data |-> data] >>
                       /\ pc' = "sidebar"
                       /\ UNCHANGED << error, rendered >>
    /\ UNCHANGED << file, all_techniques, all_instruments, criteria, filtered_df,
                    metrics, table, widget, previous_selection,
                    selected_cell_names, cards, technique_matrix, download,
                    tech, desc >>

\* Section 3: the sidebar header, the option lists and the five widgets, whose
\* values are those the session holds.
sidebar_filters ==
    /\ pc = "sidebar"
    /\ LET e1 == ColumnIterationError(df, ColTechniques, 59)
           e2 == ColumnIterationError(df, ColInstruments, 63)
       IN  IF e1 # None
           THEN /\ Raise(e1, {"sidebar_header"})
                /\ UNCHANGED << all_techniques, all_instruments >>
           ELSE IF e2 # None
           THEN /\ Raise(e2, {"sidebar_header"})
                /\ all_techniques' = AllValues(df, ColTechniques)
                /\ UNCHANGED all_instruments
           ELSE /\ all_techniques' = AllValues(df, ColTechniques)
                /\ all_instruments' = AllValues(df, ColInstruments)
                /\ rendered' = rendered \cup {"sidebar_header", "sidebar"}
                /\ pc' = "filter"
                /\ UNCHANGED error
    /\ UNCHANGED << file, cache, df, raw_json, criteria, filtered_df, metrics,
                    table, widget, previous_selection, selected_cell_names,
                    cards, technique_matrix, download, tech, desc >>

\* Section 4.
filter_logic ==
    /\ pc = "filter"
    /\ LET result == FilterLogic(df, criteria)
       IN  /\ filtered_df' = result.frame
           /\ IF result.error # None
              THEN Raise(result.error, {})
              ELSE /\ pc' = "header"
                   /\ UNCHANGED << error, rendered >>
    /\ UNCHANGED << file, cache, df, raw_json, all_techniques, all_instruments,
                    criteria, metrics, table, widget, previous_selection,
                    selected_cell_names, cards, technique_matrix, download,
                    tech, desc >>

\* Section 5: the title and the four metrics.
dashboard_header ==
    /\ pc = "header"
    /\ IF SummaryError(filtered_df) # None
       THEN /\ Raise(SummaryError(filtered_df), {"title"})
            /\ UNCHANGED metrics
       ELSE /\ metrics' = << SummaryMetrics(filtered_df) >>
            /\ rendered' = rendered \cup {"title", "metrics"}
            /\ pc' = "table"
            /\ UNCHANGED error
    /\ UNCHANGED << file, cache, df, raw_json, all_techniques, all_instruments,
                    criteria, filtered_df, table, widget, previous_selection,
                    selected_cell_names, cards, technique_matrix, download,
                    tech, desc >>

\* Section 6.
main_table ==
    /\ pc = "table"
    /\ IF ~(TableColumns \subseteq filtered_df.columns)
       THEN /\ Raise(<< [exc |-> "KeyError", line |-> 118] >>, {})
            /\ UNCHANGED table
       ELSE /\ table' = << MainTable(filtered_df) >>
            /\ rendered' = rendered \cup {"table"}
            /\ pc' = "comparison"
            /\ UNCHANGED error
    /\ UNCHANGED << file, cache, df, raw_json, all_techniques, all_instruments,
                    criteria, filtered_df, metrics, widget, previous_selection,
                    selected_cell_names, cards, technique_matrix, download,
                    tech, desc >>

\* Section 7: the multiselect and one card per selected name.
comparison ==
    /\ pc = "comparison"
    /\ LET options == ComparisonOptions(filtered_df)
           default == ComparisonDefault(filtered_df)
           value   == Multiselect(widget, options, default)
       IN  /\ widget' = << [options |-> options, default |-> default,
                            value |-> value] >>
           /\ previous_selection' = IF widget = None THEN <<>> ELSE widget[1].value
           /\ selected_cell_names' = value
           /\ IF \E i \in 1..Len(value) : CellData(raw_json, value[i]) = None
              THEN /\ Raise(<< [exc |-> "StopIteration", line |-> 151] >>,
                            {"comparison_select"})
                   /\ UNCHANGED cards
              ELSE /\ cards' = [i \in 1..Len(value) |->
                                  Card(CellData(raw_json, value[i])[1])]
                   /\ rendered' = rendered \cup {"comparison_select", "comparison"}
                   /\ pc' = "matrix"
                   /\ UNCHANGED error
    /\ UNCHANGED << file, cache, df, raw_json, all_techniques, all_instruments,
                    criteria, filtered_df, metrics, table, technique_matrix,
                    download, tech, desc >>

\* Section 8: the matrix is put on the page only when it has a row.
compatibility_matrix ==
    /\ pc = "matrix"
    /\ technique_matrix' = TechniqueMatrix(raw_json, filtered_df, all_techniques)
    /\ rendered' = IF technique_matrix' # <<>>
                   THEN rendered \cup {"matrix"} ELSE rendered
    /\ pc' = "footer"
    /\ UNCHANGED << file, cache, error, df, raw_json, all_techniques,
                    all_instruments, criteria, filtered_df, metrics, table,
                    widget, previous_selection, selected_cell_names, cards,
                    download, tech, desc >>

\* Section 9: the footer and the download button.
footer_download ==
    /\ pc = "footer"
    /\ IF DownloadError(raw_json, filtered_df) # None
       THEN /\ Raise(DownloadError(raw_json, filtered_df), {"footer"})
            /\ UNCHANGED download
       ELSE /\ download' = << JsonDumps(FilteredJsonDownload(raw_json, filtered_df)) >>
            /\ rendered' = rendered \cup {"footer", "download"}
            /\ pc' = "done"
            /\ UNCHANGED error
    /\ UNCHANGED << file, cache, df, raw_json, all_techniques, all_instruments,
                    criteria, filtered_df, metrics, table, widget,
                    previous_selection, selected_cell_names, cards,
                    technique_matrix, tech, desc >>

-----------------------------------------------------------------------------
(* The user: a changed widget starts the script again from the top *)

Rerun ==
    /\ pc' = "load"
    /\ error' = None
    /\ rendered' = {}
    /\ df' = EmptyFrame
    /\ raw_json' = <<>>
    /\ all_techniques' = {}
    /\ all_instruments' = {}
    /\ filtered_df' = EmptyFrame
    /\ metrics' = None
    /\ table' = None
    /\ previous_selection' = <<>>
    /\ selected_cell_names' = <<>>
    /\ cards' = <<>>
    /\ technique_matrix' = <<>>
    /\ download' = None

\* The user changes sidebar widgets that are on the page.
change_filters ==
    /\ pc \in {"done", "crashed"}
    /\ "sidebar" \in rendered
    /\ \E c \in CriteriaChoices :
          /\ c # criteria
          /\ criteria' = c
    /\ Rerun
    /\ UNCHANGED << file, cache, widget, tech, desc >>

\* Sequences of distinct options, at most MaxSelections long.
Selections(options) ==
    { s \in UNION { [1..n -> Range(options)] : n \in 0..MaxSelections } :
        \A i, j \in 1..Len(s) : i # j => s[i] # s[j] }

\* The user changes the comparison multiselect that is on the page.
select_cells ==
    /\ pc \in {"done", "crashed"}
    /\ "comparison_select" \in rendered
    /\ \E s \in Selections(widget[1].options) :
          /\ s # widget[1].value
          /\ widget' = << [widget[1] EXCEPT !.value = s] >>
    /\ Rerun
    /\ UNCHANGED << file, cache, criteria, tech, desc >>

Next ==
    \/ load_registry
    \/ sidebar_filters
    \/ filter_logic
    \/ dashboard_header
    \/ main_table
    \/ comparison
    \/ compatibility_matrix
    \/ footer_download
    \/ change_filters
    \/ select_cells

Spec == Init /\ [][Next]_vars

-----------------------------------------------------------------------------
(* The glossary loop on its own: one candidate string, one caption *)

XRD_CT_Synchrotron ==
    << "X", "R", "D", "-", "C", "T", " ", "S", "y", "n", "c", "h", "r", "o", "t", "r", "o", "n" >>

Bragg_Edge_Imaging ==
    << "B", "r", "a", "g", "g", " ", "E", "d", "g", "e", " ", "I", "m", "a", "g", "i", "n", "g" >>

NEXAFS ==
    << "N", "E", "X", "A", "F", "S" >>

Operando_xas ==
    << "O", "p", "e", "r", "a", "n", "d", "o", " ", "x", "a", "s" >>

Raman ==
    << "R", "a", "m", "a", "n" >>

Alphabet == {"X", "x", "R", "D", "A", "S"}

\* Candidate technique strings: every string over Alphabet up to
\* MaxCandidateLen, and some longer labels.
Candidates ==
    UNION { [1..n -> Alphabet] : n \in 0..MaxCandidateLen }
    \cup { XRD_CT_Synchrotron, Bragg_Edge_Imaging, NEXAFS, Operando_xas, Raman }

InitGlossary ==
    /\ file = [kind |-> "absent"]
    /\ cache = None
    /\ pc = "annotate"
    /\ error = None
    /\ rendered = {}
    /\ df = EmptyFrame
    /\ raw_json = <<>>
    /\ all_techniques = {}
    /\ all_instruments = {}
    /\ criteria = NoCriteria
    /\ filtered_df = EmptyFrame
    /\ metrics = None
    /\ table = None
    /\ widget = None
    /\ previous_selection = <<>>
    /\ selected_cell_names = <<>>
    /\ cards = <<>>
    /\ technique_matrix = <<>>
    /\ download = None
    /\ tech \in Candidates
    /\ desc = ""

\* The body of "for tech in cell_data['compatibility']['techniques']".
annotate_technique ==
    /\ pc = "annotate"
    /\ desc' = PartialMatch(tech)
    /\ pc' = "annotated"
    /\ UNCHANGED << file, cache, error, rendered, df, raw_json, all_techniques,
                    all_instruments, criteria, filtered_df, metrics, table,
                    widget, previous_selection, selected_cell_names, cards,
                    technique_matrix, download, tech >>

SpecGlossary == InitGlossary /\ [][annotate_technique]_vars

-----------------------------------------------------------------------------
(* Properties *)

\* The run has got past section 4 (possibly ending in a later section).
FilterDone ==
    \/ pc \in {"header", "table", "comparison", "matrix", "footer", "done"}
    \/ pc = "crashed" /\ error[1].line > 95

\* The run has got past section 8.
MatrixDone ==
    \/ pc \in {"footer", "done"}
    \/ pc = "crashed" /\ error[1].line > 210

OperatingLimits(entry) == entry.specifications.operating_limits

\* A record, as the registry file states it, satisfies every active criterion.
RecordMatches(entry, c) ==
    /\ c.techniques # {}
         => entry.compatibility.techniques \cap c.techniques # {}
    /\ c.instruments # {}
         => entry.compatibility.instruments \cap c.instruments # {}
    /\ c.digital_twin_only => entry.digital_twin.cad_available
    /\ c.pressure_control
         => /\ "pressure_control" \in DOMAIN OperatingLimits(entry)
            /\ OperatingLimits(entry).pressure_control
    /\ c.high_temp_only
         => /\ "max_temp_c" \in DOMAIN OperatingLimits(entry)
            /\ OperatingLimits(entry).max_temp_c >= 100

\* The positions of the full set whose row is in the filtered frame.
KeptPositions ==
    { i \in 1..Len(df.rows) : df.rows[i] \in Range(filtered_df.rows) }

\* s restricted to the positions in keep, in order.
Restrict(s, keep) ==
    LET idx == SelectSeq([i \in 1..Len(s) |-> i], LAMBDA i : i \in keep)
    IN  [k \in 1..Len(idx) |-> s[idx[k]]]

TechniqueSelectionAsStated ==
    FilterDone =>
        \A i \in 1..Len(raw_json) :
            (i \in KeptPositions) <=>
                (raw_json[i].compatibility.techniques \cap criteria.techniques # {})

OnlyTechniquesSelected ==
    criteria = [NoCriteria EXCEPT !.techniques = criteria.techniques]

\* C2 amended: for any non-empty technique selection S, every record in the
\* filtered output has a technique set intersecting S, and, when no other
\* criterion is active, every excluded record has an empty intersection with S.
TechniqueSelectionNonEmpty ==
    (FilterDone /\ criteria.techniques # {}) =>
        \A i \in 1..Len(raw_json) :
            LET meets == raw_json[i].compatibility.techniques
                             \cap criteria.techniques # {}
            IN  /\ i \in KeptPositions => meets
                /\ (OnlyTechniquesSelected /\ i \notin KeptPositions) => ~meets

\* C2 witness: a technique selection alone keeps one record and removes one.
TechniqueSelectionWitness ==
    /\ FilterDone
    /\ criteria.techniques # {}
    /\ OnlyTechniquesSelected
    /\ KeptPositions # {}
    /\ KeptPositions # 1..Len(raw_json)

RecordShaped == file.kind = "list" /\ JsonLoads(file.text) \in Registries

\* C3: on a registry of well-formed records, a record without max_temp_c is
\* never kept when the high-temperature flag is set, a record without
\* pressure_control is never kept when pressure control is required, and
\* neither the filter nor the high-temperature count fails on the absent
\* field.
OptionalFieldsDefault ==
    RecordShaped =>
        /\ FilterDone =>
              \A i \in KeptPositions :
                 /\ criteria.high_temp_only
                      => "max_temp_c" \in DOMAIN OperatingLimits(raw_json[i])
                 /\ criteria.pressure_control
                      => "pressure_control" \in DOMAIN OperatingLimits(raw_json[i])
        /\ ~(pc = "crashed" /\ error[1].exc = "KeyError"
                            /\ error[1].line \in {92, 95, 109})

\* C4: the download holds exactly the records of the full registry whose row
\* is in the filtered frame, each unchanged, in registry order.
DownloadIsFilteredRecords ==
    pc = "done" =>
        JsonLoads(download[1]) = Restrict(raw_json, KeptPositions)

\* C4 witness: a download that leaves out a record bearing the same name as a
\* record it contains.
DownloadWitness ==
    /\ pc = "done"
    /\ \E i \in KeptPositions :
          \E j \in 1..Len(raw_json) \ KeptPositions :
              raw_json[i].name = raw_json[j].name

\* C8: the caption is the definition of the first glossary key, in glossary
\* order, whose lower-cased form occurs in the lower-cased candidate, and the
\* sentinel when no key does; "XRD-CT Synchrotron" gets the XRD definition.
GlossaryFirstMatchWins ==
    pc = "annotated" =>
        LET hits == { k \in 1..Len(TECHNIQUE_DEFINITIONS) :
                        Contains(lower(TECHNIQUE_DEFINITIONS[k].key), lower(tech)) }
        IN  /\ hits = {} => desc = "Definition unavailable."
            /\ \A k \in hits :
                  (\A j \in hits : k <= j) => desc = TECHNIQUE_DEFINITIONS[k].val
            /\ tech = XRD_CT_Synchrotron =>
                  desc = "X-ray Diffraction. Determines crystal structure, lattice parameters, strain, and phase evolution during cycling."

\* C8 witness: the candidate "XRD-CT Synchrotron" has been annotated.
GlossaryOverlapWitness ==
    /\ pc = "annotated"
    /\ tech = XRD_CT_Synchrotron
    /\ desc # "Definition unavailable."

\* C5, for a download that holds at least one record: loading it through
\* json_normalize gives the filtered frame again, the same columns and the same
\* rows with the same cells.
ExportRoundTrip ==
    (pc = "done" /\ Len(filtered_df.rows) > 0) =>
        LET reloaded == json_normalize(JsonLoads(download[1]))
        IN  /\ reloaded.columns = filtered_df.columns
            /\ reloaded.rows = filtered_df.rows

\* C6: the matrix has one row for each row of the filtered frame and no other,
\* in the same order, and each cell of a row tells whether that record's
\* technique set contains the column's technique.
MatrixRowsAreFilteredRecords ==
    MatrixDone =>
        /\ Len(technique_matrix) = Len(filtered_df.rows)
        /\ \A i \in 1..Len(technique_matrix) :
              /\ i <= Len(filtered_df.rows)
              /\ technique_matrix[i].Cell = filtered_df.rows[i][ColName][1]
              /\ \A t \in DOMAIN technique_matrix[i].cells :
                    technique_matrix[i].cells[t]
                        <=> t \in filtered_df.rows[i][ColTechniques][1]

\* Every distinct technique of the registry file.
TechniquesOfRegistry ==
    UNION { JsonLoads(file.text)[i].compatibility.techniques :
              i \in 1..Len(file.text[2]) }

\* C7: whatever the criteria of the run, every row of the matrix has exactly
\* the techniques of the whole registry as its columns.
MatrixColumnsAreAllTechniques ==
    MatrixDone =>
        \A i \in 1..Len(technique_matrix) :
            DOMAIN technique_matrix[i].cells = TechniquesOfRegistry

\* C7 witness: after a change of criteria the matrix shows rows whose own
\* techniques are fewer than its columns.
MatrixColumnsWitness ==
    /\ MatrixDone
    /\ criteria # NoCriteria
    /\ technique_matrix # <<>>
    /\ AllValues(filtered_df, ColTechniques) # TechniquesOfRegistry

\* The run has got past section 7.
ComparisonDone ==
    \/ pc \in {"matrix", "footer", "done"}
    \/ pc = "crashed" /\ error[1].line > 189

EmptyResultWitness ==
    /\ pc = "done"
    /\ Len(filtered_df.rows) = 0
    /\ selected_cell_names = <<>>

Downstream ==
    { "sidebar_header", "sidebar", "title", "metrics", "table",
      "comparison_select", "comparison", "matrix", "footer", "download" }

\* C10: when the registry file is absent, is not JSON, or is not a list of
\* record-shaped objects, nothing downstream of the loader is rendered.
LoadFailureHaltsSession ==
    ~RecordShaped => rendered \cap Downstream = {}

====
